---- MODULE Spec2Model ----
(***************************************************************************)
(* Deliberation orchestrator of WatAIOliver (machine_learning/ai_agents):  *)
(* the LangGraph workflow  retrieve -> strategist -> critic -> moderator   *)
(* -> {strategist | reporter | END},  reporter -> tutor -> END, driven by  *)
(* MultiAgentWorkflow.process_query, together with the moderator's         *)
(* decision rules as a pure function.                                      *)
(***************************************************************************)
EXTENDS Integers, Sequences, FiniteSets, TLC

(***************************************************************************)
(* Bounds of the model (not program constants).                            *)
(***************************************************************************)
MaxRoundsBound == 2        \* max_rounds is drawn from 1..MaxRoundsBound
MaxIssues == 2             \* issues one critique run may return in total
MaxPassages == 1           \* passages one retrieval call may return
MaxTally == 2              \* per-severity count in the rule-table specification
MaxTokens == 2             \* tokens of one passage in the merge specification
MaxMergeList == 2          \* passages of one source list in the merge specification
MaxBraced == 2             \* characters of a braced token in a draft response
MaxFragments == 3          \* fragments one attempt of a streamed completion delivers
MaxContext == 6            \* context items given to the synthesis specification

(***************************************************************************)
(* Program constants.                                                      *)
(***************************************************************************)
critical_severity_threshold == 2     \* ModeratorAgent.__init__
min_quality_threshold == 70          \* RetrieveAgent.__init__ (0.7, in hundredths)
MaxAlternatives == 3                 \* queries[:3]
TopResults == 10                     \* final_results[:10]
QualityOnError == 50                 \* _assess_quality_with_chain: return 0.5
DefaultScore == 50                   \* _parse_decision: score = 0.5
max_retries == 3                     \* max_retries = 3
base_delay == 1                      \* base_delay=1.0 (seconds)
MaxSources == 5                      \* _enhance_with_metadata: context[:5]
chunk_size == 20                     \* process_streaming: chunk_size = 20

Severities == {"low", "medium", "high", "critical"}
Decisions == {"converged", "iterate", "abort_deadlock", "escalate_with_warning"}


VARIABLES
    pc,                      \* node the graph runs next; "final", "done"
    max_rounds,              \* state["max_rounds"]
    current_round,           \* state["current_round"]
    retrieval_results,       \* state["retrieval_results"]: number of passages
    retrieval_quality_score, \* state["retrieval_quality_score"] (hundredths)
    retrieval_strategy,      \* state["retrieval_strategy"]
    speculative_queries,     \* state["speculative_queries"]: number of queries
    draft,                   \* state["draft"]
    critiques,               \* state["critiques"]: sequence of severities
    moderator_decision,      \* state["moderator_decision"]
    moderator_feedback,      \* state["moderator_feedback"]
    convergence_score,       \* state["convergence_score"] (hundredths)
    workflow_status,         \* state["workflow_status"]
    error_messages,          \* state["error_messages"]
    final_answer,            \* state["final_answer"]
    events,                  \* events process_query has yielded so far
    response,                \* the response carried by the complete event
    calls,                   \* history: invocations per node
    retrieval_failed,        \* history: the initial retrieval call failed
    formatted_retrieval_output, \* state["formatted_retrieval_output"]: its status
    retr_in,                 \* history: what the retrieval run was given
    alt_retrievals,          \* history: retrieval calls issued for alternative queries
    proposal,                \* history: proposal parsed in the last moderator run
    proposal_text,           \* history: DECISION text of the last moderator response
    mod_round,               \* history: round of the last moderator run
    critic_kind,             \* history: what every critique run so far returned
    strat_resp,              \* history: the response of the last strategist call
    rule_in,                 \* rule-table specification: the arguments
    rule_out,                \* rule-table specification: the returned decision
    merge_in,                \* merge specification: the two source lists
    merge_out,               \* merge specification: the merged source list
    report_in,               \* synthesis specification: what ReporterAgent.process is given
    report_out,              \* synthesis specification: the answer it returns
    critiqued,               \* history: round and draft of the run that stored critiques
    crit_in,                 \* critique specification: what the critique run was given
    llm_call,                \* completion-call specification: the call's progress
    runs,                    \* concurrency specification: each query's run
    checkpoints,             \* concurrency specification: MemorySaver, by thread id
    stream_in,               \* streaming specification: what the stream is given
    stream_out               \* streaming specification: the fragments delivered

\* the workflow variables other than pc
wfworld == <<max_rounds, current_round, retrieval_results,
             retrieval_quality_score, retrieval_strategy, speculative_queries,
             draft, critiques, moderator_decision, moderator_feedback,
             convergence_score, workflow_status, error_messages, final_answer,
             events, response, calls, retrieval_failed, formatted_retrieval_output,
             retr_in, alt_retrievals, proposal, proposal_text, mod_round,
             critic_kind, critiqued, strat_resp>>
auxvars == <<crit_in, llm_call, runs, checkpoints, stream_in, stream_out>>
vars == <<pc, max_rounds, current_round, retrieval_results,
          retrieval_quality_score, retrieval_strategy, speculative_queries,
          draft, critiques, moderator_decision, moderator_feedback,
          convergence_score, workflow_status, error_messages, final_answer,
          events, response, calls, retrieval_failed, formatted_retrieval_output, retr_in,
                   alt_retrievals, proposal, proposal_text, mod_round,
          critic_kind, critiqued, strat_resp, rule_in, rule_out, merge_in, merge_out,
          report_in, report_out, auxvars>>

NoDraft == [draft_id |-> 0, content |-> "None"]
NoFeedback == "None"
NoAnswer == [status |-> "None", sections |-> "None", confidence_score |-> 0]
NoResponse == [debate_rounds |-> 0, moderator_decision |-> "", answer |-> NoAnswer]
NoRetrieval == [rag |-> [ok |-> FALSE, success |-> FALSE, n |-> 0], q1 |-> 0,
                alts |-> <<>>, first |-> <<>>, dups |-> 0, q2 |-> 0, bad |-> "none"]
\* The response of a strategist chain call that raised.
FailedResponse ==
    [ok |-> FALSE, parse |-> "none", body |-> "", braced |-> <<>>, raises |-> FALSE, late |-> FALSE]
NoReport == [status |-> "None", response |-> [text |-> "", headings |-> {}],
             draft_content |-> "", context |-> 0, quality_score |-> 0]
NoReportOut == [keys |-> {}, step |-> "None", text |-> <<>>, sources |-> 0,
                confidence_score |-> 0]
NoMerge == [initial |-> <<>>, alternative |-> <<>>]
NoCritique == [round |-> 0, draft_id |-> 0]
NoCritIn == [failed |-> "none", raw |-> <<>>]
NoCall == [kind |-> "None", retry_count |-> 0, attempts |-> 0, sent |-> 0,
           delays |-> <<>>, state |-> "idle"]
NoStreamIn == <<>>
NoRule == [decision |-> "", critical |-> 0, high |-> 0, medium |-> 0, low |-> 0,
           current_round |-> 0, max_rounds |-> 0]

(***************************************************************************)
(* initialize_state: the workflow state process_query starts the graph on. *)
(***************************************************************************)
initialize_state(mr) ==
    /\ max_rounds = mr
    /\ current_round = 0
    /\ retrieval_results = 0
    /\ retrieval_quality_score = 0
    /\ retrieval_strategy = ""
    /\ speculative_queries = 0
    /\ draft = NoDraft
    /\ critiques = <<>>
    /\ moderator_decision = "pending"
    /\ moderator_feedback = NoFeedback
    /\ convergence_score = 0
    /\ workflow_status = "initialized"
    /\ error_messages = <<>>
    /\ final_answer = NoAnswer

\* The variables of the other specifications, at rest.
AuxIdle ==
    /\ crit_in = NoCritIn
    /\ llm_call = NoCall
    /\ runs = <<>>
    /\ checkpoints = <<>>
    /\ stream_in = NoStreamIn
    /\ stream_out = <<>>

HistoryInit ==
    /\ events = <<>>
    /\ response = NoResponse
    /\ calls = [n \in {"retrieve", "strategist", "critic", "moderator", "reporter", "tutor"} |-> 0]
    /\ retrieval_failed = FALSE
    /\ formatted_retrieval_output = "None"
    /\ retr_in = NoRetrieval
    /\ alt_retrievals = 0
    /\ proposal = "none"
    /\ proposal_text = "none"
    /\ mod_round = 0
    /\ critic_kind = "none"
    /\ critiqued = NoCritique
    /\ strat_resp = FailedResponse

Init ==
    /\ pc = "retrieve"
    /\ \E mr \in 1..MaxRoundsBound : initialize_state(mr)
    /\ HistoryInit
    /\ rule_in = NoRule
    /\ rule_out = ""
    /\ merge_in = NoMerge
    /\ merge_out = <<>>
    /\ report_in = NoReport
    /\ report_out = NoReportOut
    /\ AuxIdle

\* An event delivered to the consumer of process_query.
Emit(ev) == events' = Append(events, ev)

\* the error event yielded without leaving the normal path
M_ProcessQueryExcept_Resume ==
    /\ Emit("error")
    /\ pc' = "final"

\* except Exception in process_query: one error event, the generator ends;
\* astream is not consumed any further, so no later node runs.
ProcessQueryExcept ==
    /\ Emit("error")
    /\ pc' = "done"

\* The body of the astream loop for the update of one node: the logging of
\* the update, then the in_progress event.  The logging dereferences the
\* strategist update's draft and the tutor update's tutor_interaction;
\* update_none says that this value is None, in which case the logging
\* raises and process_query's handler takes over.  next is the node the
\* graph runs after this one.
Yield(node, next, update_none) ==
    IF update_none
    THEN ProcessQueryExcept
    ELSE /\ Emit(node)
         /\ pc' = next
Called(node) == calls' = [calls EXCEPT ![node] = @ + 1]

(***************************************************************************)
(* Retrieval Orchestration (RetrieveAgent).  A RAG result is abstracted to *)
(* whether the call returned one (ok), its success flag and the number of  *)
(* its sources; a quality response is the score the assessment chain       *)
(* returns, -1 standing for a chain call that raises.                      *)
(***************************************************************************)
QualityResponses == {-1, 30, 70, 90}
RagNone == [ok |-> FALSE, success |-> FALSE, n |-> 0]
RagFail == [ok |-> TRUE, success |-> FALSE, n |-> 0]
RagResults == {RagFail}
                 \cup {[ok |-> TRUE, success |-> TRUE, n |-> k] : k \in 0..MaxPassages}
\* The initial call may also return more passages than are kept.
InitialRagResults == {RagNone} \cup RagResults
                       \cup {[ok |-> TRUE, success |-> TRUE, n |-> TopResults + 1]}

Min(a, b) == IF a < b THEN a ELSE b

\* perform_rag_retrieval: None when the service call raises.
perform_rag_retrieval(rag) == rag

\* _convert_rag_to_retrieval_results: number of results converted.
ConvertRag(rag) == IF ~rag.ok \/ ~rag.success THEN 0 ELSE rag.n

\* _assess_quality_with_chain
AssessQuality(n, resp) ==
    IF n = 0 THEN 0
    ELSE IF resp = -1 THEN QualityOnError
    ELSE resp

\* An alternative's result and the quality response for it; the assessment
\* chain is not called (q = 0) for a failed or empty result.
AltResults ==
    {[rag |-> r, q |-> 0] : r \in {r \in {RagNone} \cup RagResults : ConvertRag(r) = 0}}
      \cup {[rag |-> r, q |-> q] :
              r \in {r \in RagResults : ConvertRag(r) > 0}, q \in QualityResponses}

\* _parallel_retrieval_with_scoring: index of the best alternative, 0 if none.
RECURSIVE BestFrom(_, _, _, _)
BestFrom(alts, i, best_idx, best_score) ==
    IF i > Len(alts) THEN best_idx
    ELSE LET r == alts[i].rag
             score == AssessQuality(ConvertRag(r), alts[i].q)
         IN IF r.ok /\ r.success /\ score > best_score
            THEN BestFrom(alts, i + 1, i, score)
            ELSE BestFrom(alts, i + 1, best_idx, best_score)
BestAlternative(alts) == BestFrom(alts, 1, 0, 0)

\* _merge_rag_results: number of merged sources, dups of the alternative's
\* sources being flagged as duplicates by the overlap test.
MergeCount(n_initial, n_alt, dups) == n_initial + (n_alt - dups)
MaxDups(n_initial, n_alt) ==
    IF n_initial = 0 THEN (IF n_alt = 0 THEN 0 ELSE n_alt - 1) ELSE n_alt

\* _format_retrieval_output with the empty case missing
M_FormatRetrievalOutput_NoEmpty(n) == "results"

\* _format_retrieval_output
FormatRetrievalOutput(n) == IF n = 0 THEN "no_results" ELSE "results"

\* reframed_queries.index(best_alternative['query']): the first reframed
\* query with the text of the best one, first[i] being the index of the
\* first query whose text is that of the i-th.
BestQueryIndex(first, best) == first[best]

\* f"refined_query_{best_query_index + 1}"
RefinedLabel(index) == <<"refined_query_1", "refined_query_2", "refined_query_3">>[index]

\* the threshold test with <= for <
M_BelowThreshold_Inclusive(quality) == quality <= min_quality_threshold

\* quality_score < self.min_quality_threshold
BelowThreshold(quality) == quality < min_quality_threshold

\* Stages 2 and 3 of RetrieveAgent.__call__ after a successful initial call.
RetrievalOutcome(rag, q1, alts, first, dups, q2) ==
    LET n0 == ConvertRag(rag)
        quality == AssessQuality(n0, q1)
        k == Len(alts)
        best == BestAlternative(alts)
    IN IF BelowThreshold(quality) /\ k > 0
       THEN IF best > 0
            THEN LET n1 == MergeCount(rag.n, alts[best].rag.n, dups)
                 IN [n |-> Min(n1, TopResults),
                     quality |-> AssessQuality(n1, q2),
                     strategy |-> RefinedLabel(BestQueryIndex(first, best)),
                     queries |-> k, alt_calls |-> k]
            ELSE [n |-> Min(n0, TopResults), quality |-> quality,
                  strategy |-> "initial_only", queries |-> k, alt_calls |-> k]
       ELSE [n |-> Min(n0, TopResults), quality |-> quality,
             strategy |-> "initial",
             queries |-> IF BelowThreshold(quality) THEN k ELSE 0,
             alt_calls |-> 0]

AltSeqs == UNION {[1..k -> AltResults] : k \in 0..MaxAlternatives}

\* The initial result and the first quality response (none, 0, when the
\* result is empty and the chain is not called).
InitialInputs ==
    {[rag |-> r, q1 |-> 0] : r \in {r \in InitialRagResults : ConvertRag(r) = 0}}
      \cup {[rag |-> r, q1 |-> q] :
              r \in {r \in InitialRagResults : ConvertRag(r) > 0}, q \in QualityResponses}
\* Which reframed queries share their text: for k queries, the sequences
\* giving for each query the index of the first query with its text.
FirstSeqs(k) ==
    {f \in [1..k -> 1..MaxAlternatives] :
       \A i \in 1..k : f[i] <= i /\ f[f[i]] = f[i]}
\* The input of a retrieval run whose initial call fails.
FailedRetrievalInput ==
    [rag |-> RagNone, q1 |-> 0, alts |-> <<>>, first |-> <<>>, dups |-> 0, q2 |-> 0,
     bad |-> "none"]
\* The inputs of a retrieval run with a given initial result and first quality
\* response (i) and given results of the alternatives (one per reframed query
\* the chain would give): the duplicates the merge would find and the quality
\* response for the merged set (0 where nothing can be merged).
RetrievalInputsFor(i, alts) ==
    LET b == BestAlternative(alts)
    IN {[rag |-> i.rag, q1 |-> i.q1, alts |-> alts, first |-> first, dups |-> dups,
         q2 |-> q2, bad |-> "none"] :
          first \in IF b = 0 THEN {[j \in 1..Len(alts) |-> j]} ELSE FirstSeqs(Len(alts)),
          dups \in IF b = 0 THEN {0}
                   ELSE 0..Min(MaxPassages, MaxDups(i.rag.n, alts[b].rag.n)),
          q2 \in IF b = 0 THEN {0} ELSE QualityResponses}
\* The inputs of a retrieval run whose initial result holds a source the
\* run cannot handle: with a None metadata the conversion raises before any
\* other call; with a score that is no number (the source being one of the
\* first five, the service returning four) the quality assessment of the
\* initial set, and of the merged set, falls back on its error value and
\* the formatting of the output raises.
BadRetrievalInputsFor(rag, alts) ==
    LET b == BestAlternative(alts)
    IN {[rag |-> rag, q1 |-> -1, alts |-> <<>>, first |-> <<>>, dups |-> 0, q2 |-> 0,
         bad |-> "metadata"],
        [rag |-> rag, q1 |-> -1, alts |-> alts, first |-> [j \in 1..Len(alts) |-> j],
         dups |-> 0, q2 |-> IF b = 0 THEN 0 ELSE -1, bad |-> "score"]}

Alt(ok, n, q) == [rag |-> [ok |-> ok, success |-> ok, n |-> n], q |-> q]

\* The retrieval runs the workflow specification starts from: a failed
\* initial call, a poor initial result improved by the second of two
\* reframed queries of the same text, and an initial result with a source
\* whose metadata is None.
WorkflowRetrievalInputs ==
    {[rag |-> RagNone, q1 |-> 90, alts |-> <<>>, first |-> <<>>, dups |-> 0, q2 |-> 90,
      bad |-> "none"],
     [rag |-> [ok |-> TRUE, success |-> TRUE, n |-> 1], q1 |-> -1,
      alts |-> <<Alt(FALSE, 0, 90), Alt(TRUE, 1, 90)>>, first |-> <<1, 1>>,
      dups |-> 0, q2 |-> 90, bad |-> "none"],
     [rag |-> [ok |-> TRUE, success |-> TRUE, n |-> 1], q1 |-> -1,
      alts |-> <<>>, first |-> <<>>, dups |-> 0, q2 |-> 0, bad |-> "metadata"]}

RetrieveWith(inputs) ==
    /\ pc = "retrieve"
    /\ Called("retrieve")
    /\ \E in \in inputs :
         /\ retr_in' = in
         /\ IF ~perform_rag_retrieval(in.rag).ok
            THEN /\ error_messages' = Append(error_messages, "Initial RAG retrieval failed")
                 /\ workflow_status' = "failed"
                 /\ retrieval_failed' = TRUE
                 /\ UNCHANGED <<retrieval_results, retrieval_quality_score,
                                retrieval_strategy, speculative_queries,
                                formatted_retrieval_output, alt_retrievals>>
            ELSE LET out == RetrievalOutcome(in.rag, in.q1, in.alts, in.first, in.dups,
                                             in.q2)
                     b == BestAlternative(in.alts)
                 IN IF in.bad # "none" /\ ConvertRag(in.rag) > 0
                    THEN \* except Exception: nothing of the retrieval is stored
                         /\ error_messages' = Append(error_messages, "Retrieve agent error")
                         /\ workflow_status' = "failed"
                         /\ alt_retrievals' = IF in.bad = "metadata" THEN 0
                                              ELSE out.alt_calls
                         /\ UNCHANGED <<retrieval_results, retrieval_quality_score,
                                        retrieval_strategy, speculative_queries,
                                        formatted_retrieval_output, retrieval_failed>>
                    ELSE /\ (b > 0 => in.dups <= MaxDups(in.rag.n, in.alts[b].rag.n))
                         /\ (b = 0 => in.dups = 0)
                         /\ retrieval_results' = out.n
                         /\ retrieval_quality_score' = out.quality
                         /\ retrieval_strategy' = out.strategy
                         /\ speculative_queries' = out.queries
                         /\ alt_retrievals' = out.alt_calls
                         /\ formatted_retrieval_output' = FormatRetrievalOutput(out.n)
                         /\ workflow_status' = "retrieving"
                         /\ UNCHANGED <<error_messages, retrieval_failed>>
    /\ Yield("retrieve", "strategist", FALSE)
    /\ UNCHANGED <<max_rounds, current_round, draft, critiques, moderator_decision,
                   moderator_feedback, convergence_score, final_answer, response,
                   proposal, proposal_text, mod_round, critic_kind, critiqued, strat_resp, rule_in, rule_out, merge_in, merge_out, report_in, report_out, auxvars>>

Retrieve == RetrieveWith(WorkflowRetrievalInputs)
\* One retrieval run on any of its inputs.
RetrieveAny ==
    /\ pc = "retrieve"
    /\ \/ RetrieveWith({FailedRetrievalInput})
       \/ \E i \in {i \in InitialInputs : i.rag.ok}, alts \in AltSeqs :
            RetrieveWith(RetrievalInputsFor(i, alts))
       \/ \E r \in {r \in InitialRagResults : ConvertRag(r) > 0}, alts \in AltSeqs :
            RetrieveWith(BadRetrievalInputsFor(r, alts))

(***************************************************************************)
(* Draft Generator (StrategistAgent.__call__).  A response of the chain is *)
(* abstracted to whether the call returned (ok), which parse path accepts  *)
(* it (strict JSON, a JSON fragment embedded in text, none), the body of   *)
(* its draft_content, the braced token the body holds (a sequence of       *)
(* character classes: l lower-case letter, U upper-case letter, _          *)
(* underscore, d digit; <<>> for none) and whether handling the parsed     *)
(* object raises (a JSON value that is no object, a null draft_content, a  *)
(* confidence that is no number) and whether one of the first three steps  *)
(* of its chain_of_thought has a thought that is no text (late).           *)
(***************************************************************************)
RoundCap == MaxRoundsBound + 1

CharClasses == {"l", "U", "_", "d"}
BracedTokens == UNION {[1..n -> CharClasses] : n \in 0..MaxBraced}
DraftBodies == {"", "answer", "the context is empty"}
StrategistResponses ==
    {FailedResponse}
      \cup {[ok |-> TRUE, parse |-> "none", body |-> bd, braced |-> br, raises |-> FALSE, late |-> FALSE] :
              bd \in DraftBodies, br \in BracedTokens}
      \cup {[ok |-> TRUE, parse |-> p, body |-> bd, braced |-> br, raises |-> rl[1],
               late |-> rl[2]] :
              p \in {"json", "embedded"}, bd \in DraftBodies, br \in BracedTokens,
              rl \in {<<FALSE, FALSE>>, <<TRUE, FALSE>>, <<FALSE, TRUE>>}}
\* The responses the workflow specification draws from: a failed call, a
\* plain answer in strict JSON, and an embedded answer echoing {query} whose
\* first step has a null thought.
WorkflowStrategistResponses ==
    {FailedResponse,
     [ok |-> TRUE, parse |-> "json", body |-> "answer", braced |-> <<>>, raises |-> FALSE,
      late |-> FALSE],
     [ok |-> TRUE, parse |-> "embedded", body |-> "answer", braced |-> <<"l">>,
      raises |-> FALSE, late |-> TRUE]}

\* the increment placed after the chain call, so skipped when the call raises
M_NextRound_AfterCall(round, ok) == IF ok THEN round + 1 ELSE round

\* state["current_round"] += 1, executed before any chain call.
NextRound(round, ok) == round + 1

\* _contains_template_placeholders with only the underscore pattern left
M_ContainsTemplatePlaceholders_UnderscoreOnly(braced) ==
    \E i \in DOMAIN braced : braced[i] = "_"

\* _contains_template_placeholders: \{[a-z_]+\} ignoring case, or \{.*_.*\}
\* (\{query\} and \{context\} are instances of the former).
ContainsTemplatePlaceholders(braced) ==
    /\ braced # <<>>
    /\ \/ \A i \in DOMAIN braced : braced[i] \in {"l", "U", "_"}
       \/ \E i \in DOMAIN braced : braced[i] = "_"

\* "context is empty" in draft_content.lower() (and its two variants)
ClaimsEmptyContext(body) == body = "the context is empty"

\* Content stored in the draft: the model's text ("llm") or the text of
\* _generate_proper_answer ("fallback").
DraftContentOf(resp) ==
    LET parsed == IF resp.parse = "none" \/ resp.raises THEN "fallback"
                  ELSE IF ContainsTemplatePlaceholders(resp.braced) THEN "fallback"
                  ELSE IF ClaimsEmptyContext(resp.body) THEN "fallback"
                  ELSE "llm"
        empty == resp.body = "" /\ resp.braced = <<>>
    IN \* if not draft_content or self._contains_template_placeholders(draft_content)
       IF parsed = "llm" /\ (empty \/ ContainsTemplatePlaceholders(resp.braced))
       THEN "fallback"
       ELSE parsed

\* The steps kept are those of the response unless the parse fell back or
\* the final validity test (an empty draft_content; a placeholder has been
\* replaced by then) replaced them by _generate_proper_cot; logging
\* step['thought'][:100] of a kept step whose thought is no text raises
\* after the draft has been stored.
LateFailure(resp) ==
    /\ resp.late
    /\ resp.parse # "none" /\ ~resp.raises
    /\ ~(resp.body = "" /\ resp.braced = <<>>)

\* if feedback and state.get("draft"): the refinement chain, else the draft
\* generation chain
ChainChosen(feedback, previous) ==
    IF feedback \notin {NoFeedback, ""} /\ previous # NoDraft THEN "refinement"
    ELSE "initial"

StrategistWith(responses) ==
    /\ pc = "strategist"
    /\ current_round < RoundCap
    /\ Called("strategist")
    /\ \E resp \in responses :
         /\ strat_resp' = resp
         /\ current_round' = NextRound(current_round, resp.ok)
         /\ IF resp.ok
            THEN /\ draft' = [draft_id |-> current_round', content |-> DraftContentOf(resp)]
                 /\ IF LateFailure(resp)
                    THEN /\ error_messages' = Append(error_messages, "Strategist agent error")
                         /\ workflow_status' = "failed"
                    ELSE /\ workflow_status' = "debating"
                         /\ UNCHANGED error_messages
            ELSE /\ error_messages' = Append(error_messages, "Strategist agent error")
                 /\ workflow_status' = "failed"
                 /\ UNCHANGED draft
    /\ Yield("strategist", "critic", draft' = NoDraft)
    /\ UNCHANGED <<max_rounds, retrieval_results, retrieval_quality_score,
                   retrieval_strategy, speculative_queries, critiques,
                   moderator_decision, moderator_feedback, convergence_score,
                   final_answer, response, retrieval_failed, formatted_retrieval_output,
                   retr_in, alt_retrievals, proposal, proposal_text, mod_round,
                   critic_kind, critiqued, rule_in, rule_out, merge_in, merge_out, report_in, report_out, auxvars>>

Strategist == StrategistWith(WorkflowStrategistResponses)
\* One draft generation on any response.
StrategistAny == StrategistWith(StrategistResponses)

(***************************************************************************)
(* Critique Engine (CriticAgent.__call__).  The three checks return raw    *)
(* issue records, abstracted to their severity text; failed names the call *)
(* that raises, if any.                                                    *)
(***************************************************************************)
RawSeverities == Severities \cup {"severe"}
\* The raw records one critique run returns, most severe first.
RawRank == [sev \in RawSeverities |->
              CASE sev = "critical" -> 4 [] sev = "high" -> 3 [] sev = "medium" -> 2
                [] sev = "severe" -> 1 [] OTHER -> 0]
RawIssueLists ==
    UNION {{raw \in [1..n -> RawSeverities] :
              \A k \in 1..(n - 1) : RawRank[raw[k]] >= RawRank[raw[k + 1]]} :
           n \in 0..MaxIssues}
CriticFailures == {"none", "logic", "fact", "hallucination", "assessment"}

\* _parse_issues: an unrecognized severity becomes medium.
ParseIssues(raw) ==
    [i \in 1..Len(raw) |-> IF raw[i] \in Severities THEN raw[i] ELSE "medium"]

KindOf(ok, issues) ==
    IF ok /\ issues = <<>> THEN "zero"
    ELSE IF ok /\ issues = <<"critical">> THEN "one_critical"
    ELSE "other"
NextKind(old, new) == IF old \in {"none", new} THEN new ELSE "other"

CriticFails ==
    /\ error_messages' = Append(error_messages, "Critic agent error")
    /\ workflow_status' = "failed"
    /\ UNCHANGED <<critiques, critiqued>>
    /\ critic_kind' = NextKind(critic_kind, "other")

\* The records the three checks return: the logic check reports the first
\* record, the fact check the second, the hallucination check the remaining
\* ones.
LogicIssues(raw) == ParseIssues(SubSeq(raw, 1, Min(1, Len(raw))))
FactIssues(raw) == ParseIssues(SubSeq(raw, Min(1, Len(raw)) + 1, Min(2, Len(raw))))
HallucinationIssues(raw) == ParseIssues(SubSeq(raw, Min(2, Len(raw)) + 1, Len(raw)))

\* One critique run: in.failed names the chain call that raises ("none" for
\* no call), in.raw the records the three checks return.
CriticOn(in) ==
    /\ pc = "critic"
    /\ Called("critic")
    /\ IF draft = NoDraft
       THEN CriticFails                       \* raise ValueError("No draft to critique")
       ELSE IF in.failed # "none"
       THEN CriticFails                       \* except Exception
       ELSE LET found == LogicIssues(in.raw) \o FactIssues(in.raw)
                           \o HallucinationIssues(in.raw)
            IN /\ critiques' = found
               /\ critiqued' = [round |-> current_round, draft_id |-> draft.draft_id]
               /\ workflow_status' = "debating"
               /\ UNCHANGED error_messages
               /\ critic_kind' = NextKind(critic_kind, KindOf(TRUE, found))
    /\ Yield("critic", "moderator", FALSE)
    /\ UNCHANGED <<max_rounds, current_round, retrieval_results,
                   retrieval_quality_score, retrieval_strategy, speculative_queries,
                   draft, moderator_decision, moderator_feedback, convergence_score,
                   final_answer, response, retrieval_failed, formatted_retrieval_output, retr_in,
                   alt_retrievals, proposal, proposal_text, mod_round,
                   strat_resp, rule_in, rule_out, merge_in, merge_out, report_in, report_out>>
    /\ UNCHANGED <<llm_call, runs, checkpoints, stream_in, stream_out>>

\* The critique runs of the workflow specification: a run whose checks all
\* return, or a run one of whose calls raises.
Critic ==
    /\ pc = "critic"
    /\ \/ \E raw \in RawIssueLists : CriticOn([failed |-> "none", raw |-> raw])
       \/ \E failed \in CriticFailures \ {"none"} : CriticOn([failed |-> failed, raw |-> <<>>])
    /\ UNCHANGED crit_in

\* One critique run on any responses of its four calls.
CritiqueInputs == {[failed |-> f, raw |-> r] : f \in CriticFailures, r \in RawIssueLists}
CriticAny ==
    /\ pc = "critic"
    /\ \E in \in CritiqueInputs : CriticOn(in) /\ crit_in' = in

(***************************************************************************)
(* Decision Controller (ModeratorAgent).                                   *)
(***************************************************************************)
DecisionTexts == Decisions \cup {"undecided"}
ScoreTexts == {-1, 90}                 \* -1: no parseable CONVERGENCE_SCORE line
FeedbackTexts == {"", "llm feedback"}
DecisionResponses ==
    {[ok |-> FALSE, decision |-> "undecided", feedback |-> "", score |-> -1]}
      \cup {[ok |-> TRUE, decision |-> d, feedback |-> f, score |-> sc] :
              d \in DecisionTexts, f \in FeedbackTexts, sc \in ScoreTexts}
FeedbackResponses ==
    {[ok |-> FALSE, text |-> ""], [ok |-> TRUE, text |-> ""],
     [ok |-> TRUE, text |-> "detailed feedback"]}
DefaultFeedback == "Please address the identified critical and high-severity issues."

\* _analyze_severity
RECURSIVE CountOf(_, _)
CountOf(issues, sev) ==
    IF issues = <<>> THEN 0
    ELSE (IF Head(issues) = sev THEN 1 ELSE 0) + CountOf(Tail(issues), sev)
AnalyzeSeverity(issues) == [sev \in Severities |-> CountOf(issues, sev)]

\* _parse_decision without the membership test on the DECISION text
M_ParseDecision_Unchecked(resp) ==
    [decision |-> resp.decision,
     feedback |-> resp.feedback,
     score |-> IF resp.score = -1 THEN DefaultScore ELSE resp.score]

\* _parse_decision
ParseDecision(resp) ==
    [decision |-> IF resp.decision \in Decisions THEN resp.decision ELSE "iterate",
     feedback |-> resp.feedback,
     score |-> IF resp.score = -1 THEN DefaultScore ELSE resp.score]

\* Variants of _apply_decision_rules with one rule changed.
RulesFrom2(decision, severity_counts, round, mr) ==
    IF decision = "converged" /\ severity_counts["critical"] > 0
    THEN (IF round < mr THEN "iterate" ELSE "escalate_with_warning")
    ELSE IF severity_counts["critical"] >= critical_severity_threshold
         THEN "escalate_with_warning"
    ELSE IF severity_counts["critical"] = 0 /\ severity_counts["high"] = 0
              /\ severity_counts["medium"] <= 1
         THEN "converged"
    ELSE decision
RulesFrom3(decision, severity_counts, threshold) ==
    IF severity_counts["critical"] >= threshold
    THEN "escalate_with_warning"
    ELSE IF severity_counts["critical"] = 0 /\ severity_counts["high"] = 0
              /\ severity_counts["medium"] <= 1
         THEN "converged"
    ELSE decision
\* rule 1 dropped
M_Rules_NoMaxRounds(decision, severity_counts, round, mr) ==
    RulesFrom2(decision, severity_counts, round, mr)
\* rule 1 with > for >=
M_Rules_StrictMax(decision, severity_counts, round, mr) ==
    IF round > mr THEN "abort_deadlock"
    ELSE RulesFrom2(decision, severity_counts, round, mr)
\* rule 2 dropped
M_Rules_NoCriticalOverride(decision, severity_counts, round, mr) ==
    IF round >= mr THEN "abort_deadlock"
    ELSE RulesFrom3(decision, severity_counts, critical_severity_threshold)
\* rule 2 with its two results exchanged
M_Rules_SwappedOverride(decision, severity_counts, round, mr) ==
    IF round >= mr THEN "abort_deadlock"
    ELSE IF decision = "converged" /\ severity_counts["critical"] > 0
         THEN (IF round < mr THEN "escalate_with_warning" ELSE "iterate")
    ELSE RulesFrom3(decision, severity_counts, critical_severity_threshold)
\* rule 3 with > for >=
M_Rules_StrictThreshold(decision, severity_counts, round, mr) ==
    IF round >= mr THEN "abort_deadlock"
    ELSE IF decision = "converged" /\ severity_counts["critical"] > 0
         THEN (IF round < mr THEN "iterate" ELSE "escalate_with_warning")
    ELSE RulesFrom3(decision, severity_counts, critical_severity_threshold + 1)

\* _apply_decision_rules
ApplyDecisionRules(decision, severity_counts, round, mr) ==
    IF round >= mr THEN "abort_deadlock"
    ELSE IF decision = "converged" /\ severity_counts["critical"] > 0
         THEN (IF round < mr THEN "iterate" ELSE "escalate_with_warning")
    ELSE IF severity_counts["critical"] >= critical_severity_threshold
         THEN "escalate_with_warning"
    ELSE IF severity_counts["critical"] = 0 /\ severity_counts["high"] = 0
              /\ severity_counts["medium"] <= 1
         THEN "converged"
    ELSE decision

\* except Exception in ModeratorAgent.__call__: the decision stored on failure.
M_FailureDecision_Keep(previous) == previous
FailureDecision(previous) == "abort_deadlock"

\* _generate_detailed_feedback
GenerateDetailedFeedback(fresp) == IF fresp.ok THEN fresp.text ELSE DefaultFeedback

\* MultiAgentWorkflow._route_from_moderator
RouteFromModerator(decision) ==
    IF decision = "iterate" THEN "strategist"
    ELSE IF decision \in {"converged", "abort_deadlock", "escalate_with_warning"}
         THEN "reporter"
    ELSE "end"

\* Graph edges out of the moderator node; END finishes astream.
NodeAfterModerator(decision) ==
    LET r == RouteFromModerator(decision) IN IF r = "end" THEN "final" ELSE r

Moderator ==
    /\ pc = "moderator"
    /\ Called("moderator")
    /\ mod_round' = current_round
    /\ \E resp \in DecisionResponses, fresp \in FeedbackResponses :
         IF resp.ok
         THEN LET parsed == ParseDecision(resp)
                  severity_counts == AnalyzeSeverity(critiques)
                  decision == ApplyDecisionRules(parsed.decision, severity_counts,
                                                 current_round, max_rounds)
                  detailed == GenerateDetailedFeedback(fresp)
                  feedback == IF decision = "iterate" /\ detailed # ""
                              THEN detailed ELSE parsed.feedback
              IN /\ (decision # "iterate" => fresp = [ok |-> TRUE, text |-> ""])
                 /\ moderator_decision' = decision
                 /\ moderator_feedback' = IF decision = "iterate" THEN feedback ELSE NoFeedback
                 /\ convergence_score' = parsed.score
                 /\ proposal' = parsed.decision
                 /\ proposal_text' = resp.decision
                 /\ UNCHANGED <<error_messages, workflow_status>>
         ELSE /\ fresp = [ok |-> TRUE, text |-> ""]
              /\ error_messages' = Append(error_messages, "Moderator agent error")
              /\ workflow_status' = "failed"
              /\ moderator_decision' = FailureDecision(moderator_decision)
              /\ proposal' = "failed"
              /\ proposal_text' = "failed"
              /\ UNCHANGED <<moderator_feedback, convergence_score>>
    /\ Yield("moderator", NodeAfterModerator(moderator_decision'), FALSE)
    /\ UNCHANGED <<max_rounds, current_round, retrieval_results,
                   retrieval_quality_score, retrieval_strategy, speculative_queries,
                   draft, critiques, final_answer, response, retrieval_failed,
                   formatted_retrieval_output, retr_in, alt_retrievals,
                   critic_kind, critiqued, strat_resp, rule_in, rule_out, merge_in, merge_out, report_in, report_out, auxvars>>

(***************************************************************************)
(* Synthesizer (ReporterAgent.process behind the reporter node), the tutor *)
(* node, and the end of process_query.                                     *)
(***************************************************************************)
\* Synthesis strategy selected by the decision (spec 4.6).
DebateStatus(decision) ==
    IF decision = "converged" THEN "approved"
    ELSE IF decision \in {"abort_deadlock", "escalate_with_warning"} THEN "deadlock"
    ELSE "unexpected"

Reporter ==
    /\ pc = "reporter"
    /\ Called("reporter")
    /\ \E synth \in {"parsed", "fallback", "raise"} :
         IF synth = "raise"
         THEN /\ ProcessQueryExcept
              /\ UNCHANGED final_answer
         ELSE /\ final_answer' = [status |-> DebateStatus(moderator_decision),
                                  sections |-> synth,
                                  confidence_score |-> convergence_score]
              /\ Yield("reporter", "tutor", FALSE)
    /\ UNCHANGED <<max_rounds, current_round, retrieval_results,
                   retrieval_quality_score, retrieval_strategy, speculative_queries,
                   draft, critiques, moderator_decision, moderator_feedback,
                   convergence_score, workflow_status, error_messages, response,
                   retrieval_failed, formatted_retrieval_output, retr_in,
                   alt_retrievals, proposal, proposal_text, mod_round, critic_kind, critiqued,
                   strat_resp, rule_in, rule_out, merge_in, merge_out, report_in, report_out, auxvars>>

Tutor ==
    /\ pc = "tutor"
    /\ Called("tutor")
    /\ \E tutor_interaction \in {"None", "prepared"} :
         Yield("tutor", "final", tutor_interaction = "None")
    /\ UNCHANGED <<max_rounds, current_round, retrieval_results,
                   retrieval_quality_score, retrieval_strategy, speculative_queries,
                   draft, critiques, moderator_decision, moderator_feedback,
                   convergence_score, workflow_status, error_messages, final_answer,
                   response, retrieval_failed, formatted_retrieval_output, retr_in,
                   alt_retrievals, proposal, proposal_text, mod_round, critic_kind, critiqued,
                   strat_resp, rule_in, rule_out, merge_in, merge_out, report_in, report_out, auxvars>>

\* _format_final_response
FormatFinalResponse ==
    [debate_rounds |-> current_round,
     moderator_decision |-> moderator_decision,
     answer |-> final_answer]

\* After astream ends: aget_state, _format_final_response, the complete event.
Complete ==
    /\ pc = "final"
    /\ response' = FormatFinalResponse
    /\ Emit("complete")
    /\ pc' = "done"
    /\ UNCHANGED <<max_rounds, current_round, retrieval_results,
                   retrieval_quality_score, retrieval_strategy, speculative_queries,
                   draft, critiques, moderator_decision, moderator_feedback,
                   convergence_score, workflow_status, error_messages, final_answer,
                   calls, retrieval_failed, formatted_retrieval_output, retr_in,
                   alt_retrievals, proposal, proposal_text, mod_round, critic_kind, critiqued,
                   strat_resp, rule_in, rule_out, merge_in, merge_out, report_in, report_out, auxvars>>

Next ==
    \/ Retrieve
    \/ Strategist
    \/ Critic
    \/ Moderator
    \/ Reporter
    \/ Tutor
    \/ Complete

Spec == Init /\ [][Next]_vars


(***************************************************************************)
(* One critique run and the decision that follows it, as a function of     *)
(* what the critic's four chain calls return: InitCritique is the state    *)
(* the critic node is entered in, in round 1 (no critiques yet) or in      *)
(* round 2 after a decision to iterate (the critiques of round 1 present). *)
(***************************************************************************)
InitCritique ==
    /\ pc = "critic"
    /\ max_rounds = MaxRoundsBound + 1
    /\ retrieval_results = 1
    /\ retrieval_quality_score = 90
    /\ retrieval_strategy = "initial"
    /\ speculative_queries = 0
    /\ formatted_retrieval_output = "results"
    /\ \/ /\ current_round = 1
          /\ draft \in {[draft_id |-> 1, content |-> c] : c \in {"llm", "fallback"}}
          /\ critiques = <<>>
          /\ moderator_decision = "pending"
          /\ moderator_feedback = NoFeedback
          /\ convergence_score = 0
          /\ events = <<"retrieve", "strategist">>
          /\ calls = [n \in {"retrieve", "strategist", "critic", "moderator", "reporter",
                             "tutor"} |-> IF n \in {"retrieve", "strategist"} THEN 1 ELSE 0]
          /\ mod_round = 0
          /\ critic_kind = "none"
          /\ critiqued = NoCritique
          /\ proposal = "none"
          /\ proposal_text = "none"
       \/ /\ current_round = 2
          /\ draft \in {[draft_id |-> 2, content |-> c] : c \in {"llm", "fallback"}}
          /\ critiques = <<"high">>
          /\ moderator_decision = "iterate"
          /\ moderator_feedback = "detailed feedback"
          /\ convergence_score = DefaultScore
          /\ events = <<"retrieve", "strategist", "critic", "moderator", "strategist">>
          /\ calls = [n \in {"retrieve", "strategist", "critic", "moderator", "reporter",
                             "tutor"} |->
                        IF n \in {"reporter", "tutor"} THEN 0
                        ELSE IF n = "strategist" THEN 2 ELSE 1]
          /\ mod_round = 1
          /\ critic_kind = "other"
          /\ critiqued = [round |-> 1, draft_id |-> 1]
          /\ proposal = "iterate"
          /\ proposal_text = "iterate"
    /\ workflow_status = "debating"
    /\ error_messages = <<>>
    /\ final_answer = NoAnswer
    /\ response = NoResponse
    /\ retrieval_failed = FALSE
    /\ retr_in = NoRetrieval
    /\ alt_retrievals = 0
    /\ strat_resp = [ok |-> TRUE, parse |-> "json", body |-> "answer", braced |-> <<>>,
                     raises |-> FALSE, late |-> FALSE]
    /\ rule_in = NoRule
    /\ rule_out = ""
    /\ merge_in = NoMerge
    /\ merge_out = <<>>
    /\ report_in = NoReport
    /\ report_out = NoReportOut
    /\ AuxIdle

NextCritique ==
    \/ CriticAny
    \/ Moderator

SpecCritique == InitCritique /\ [][NextCritique]_vars

(***************************************************************************)
(* One completion call of the Synthesizer with its retries: the streamed   *)
(* call (_call_llm_stream) and the plain call (_call_llm, whose retries    *)
(* are those of _retry_with_backoff).  stream_in gives, for every attempt  *)
(* the call might make, how the completion service answers it: the number  *)
(* of fragments it delivers and whether it then ends normally (ok) or      *)
(* raises a transient or a permanent error.  A delivered item is a text    *)
(* fragment of an attempt, a retry notice or an error text.                *)
(*                                                                         *)
(* _call_llm_stream is an asynchronous generator: llm_call.state tells     *)
(* where it stands.  "ready": at the top of the while loop (not started,   *)
(* or woken from the backoff sleep); "streaming": inside attempt           *)
(* llm_call.attempts, awaiting the next item of the completion service,    *)
(* llm_call.sent fragments of the attempt passed on; "yielded", "noticed", *)
(* "errored": suspended at the yield of a fragment, of the retry notice,   *)
(* of the error text, the consumer holding the item; "pausing": in         *)
(* asyncio.sleep(0.01); "sleeping": in asyncio.sleep(delay); "done": the   *)
(* generator has returned; "closed": the consumer has closed it.           *)
(***************************************************************************)
Outcomes == {"ok", "transient", "permanent"}
AttemptResults == {[outcome |-> o, frags |-> n] : o \in Outcomes, n \in 0..MaxFragments}
\* The attempts offered: one more than the call may make, the last one an
\* attempt that would succeed.
OfferedAttempts ==
    {offered \in [1..(max_retries + 1) -> AttemptResults] :
        offered[max_retries + 1] = [outcome |-> "ok", frags |-> 1]}

\* _is_server_side_error: transient (timeout, rate limit, 5xx) errors
IsServerSideError(outcome) == outcome = "transient"

\* the delay without the doubling
M_BackoffDelay_Constant(retry_count) == base_delay

\* 1.0 * (2 ** (retry_count - 1))
BackoffDelay(retry_count) == base_delay * 2 ^ (retry_count - 1)

\* the chunks attempt i yields
Fragments(i, n) == [k \in 1..n |-> [kind |-> "text", attempt |-> i, index |-> k]]
RetryNotice(delay) == [kind |-> "notice", attempt |-> 0, index |-> delay]
ErrorText == [kind |-> "error", attempt |-> 0, index |-> 0]

\* _call_llm_stream from the top of the while loop, or from the await of the
\* completion service's next item, to its next yield or its return: the
\* next fragment of the attempt is passed on; or the attempt ends normally
\* and the generator returns; or the attempt raises and the except clause
\* yields the retry notice or the error text.
StreamAttempt ==
    /\ pc = "stream"
    /\ llm_call.kind = "stream"
    /\ llm_call.state \in {"ready", "streaming"}
    /\ llm_call.retry_count < max_retries
    /\ LET starting == llm_call.state = "ready"
           i == IF starting THEN llm_call.attempts + 1 ELSE llm_call.attempts
           sent == IF starting THEN 0 ELSE llm_call.sent
           r == stream_in[i]
           retry_count == llm_call.retry_count + 1
           delay == BackoffDelay(retry_count)
       IN IF sent < r.frags
          THEN /\ stream_out' = Append(stream_out, Fragments(i, r.frags)[sent + 1])
               /\ llm_call' = [llm_call EXCEPT !.attempts = i, !.sent = sent + 1,
                                               !.state = "yielded"]
               /\ pc' = pc
          ELSE IF r.outcome = "ok"
          THEN /\ stream_out' = stream_out
               /\ llm_call' = [llm_call EXCEPT !.attempts = i, !.sent = sent,
                                               !.state = "done"]
               /\ pc' = "streamed"
          ELSE IF ~IsServerSideError(r.outcome)
          THEN /\ stream_out' = Append(stream_out, ErrorText)
               /\ llm_call' = [llm_call EXCEPT !.attempts = i, !.sent = sent,
                                               !.state = "errored",
                                               !.retry_count = retry_count]
               /\ pc' = pc
          ELSE IF retry_count < max_retries
          THEN /\ stream_out' = Append(stream_out, RetryNotice(delay))
               /\ llm_call' = [llm_call EXCEPT !.attempts = i, !.sent = sent,
                                               !.state = "noticed",
                                               !.retry_count = retry_count]
               /\ pc' = pc
          ELSE /\ stream_out' = Append(stream_out, ErrorText)
               /\ llm_call' = [llm_call EXCEPT !.attempts = i, !.sent = sent,
                                               !.state = "errored",
                                               !.retry_count = retry_count]
               /\ pc' = pc
    /\ UNCHANGED <<wfworld, rule_in, rule_out, merge_in, merge_out, report_in,
                   report_out, crit_in, runs, checkpoints, stream_in>>

\* The consumer asks _call_llm_stream for its next item: after a fragment
\* the generator awaits the service again, every third fragment after
\* asyncio.sleep(0.01); after the retry notice it sleeps the delay; after
\* the error text it returns.
StreamResume ==
    /\ pc = "stream"
    /\ llm_call.kind = "stream"
    /\ llm_call.state \in {"yielded", "noticed", "errored"}
    /\ llm_call' =
         CASE llm_call.state = "yielded" ->
                [llm_call EXCEPT !.state = IF llm_call.sent % 3 = 0 THEN "pausing"
                                           ELSE "streaming"]
           [] llm_call.state = "noticed" ->
                [llm_call EXCEPT !.state = "sleeping",
                                 !.delays = Append(@, BackoffDelay(llm_call.retry_count))]
           [] llm_call.state = "errored" -> [llm_call EXCEPT !.state = "done"]
    /\ pc' = IF llm_call.state = "errored" THEN "streamed" ELSE pc
    /\ UNCHANGED <<wfworld, rule_in, rule_out, merge_in, merge_out, report_in,
                   report_out, crit_in, runs, checkpoints, stream_in, stream_out>>

\* The consumer stops iterating and closes the generator (_call_llm_stream
\* or process_streaming) at the yield it is suspended at.
StreamClose ==
    /\ pc = "stream"
    /\ llm_call.kind \in {"stream", "process"}
    /\ llm_call.state \in {"yielded", "noticed", "errored"}
    /\ llm_call' = [llm_call EXCEPT !.state = "closed"]
    /\ pc' = "streamed"
    /\ UNCHANGED <<wfworld, rule_in, rule_out, merge_in, merge_out, report_in,
                   report_out, crit_in, runs, checkpoints, stream_in, stream_out>>

\* await asyncio.sleep(delay) returns to the top of the while loop;
\* await asyncio.sleep(0.01) returns to the await of the next item
StreamWake ==
    /\ pc = "stream"
    /\ llm_call.kind = "stream"
    /\ llm_call.state \in {"sleeping", "pausing"}
    /\ llm_call' = [llm_call EXCEPT !.state = IF llm_call.state = "sleeping"
                                              THEN "ready" ELSE "streaming"]
    /\ UNCHANGED <<pc, wfworld, rule_in, rule_out, merge_in, merge_out, report_in,
                   report_out, crit_in, runs, checkpoints, stream_in, stream_out>>

\* _retry_with_backoff(_llm_operation, max_retries=3, base_delay=1.0): one
\* attempt of the plain call; _call_llm returns the text, or "" when the
\* retries end with an error.
RetryAttempt ==
    /\ pc = "stream"
    /\ llm_call.kind = "call"
    /\ llm_call.state = "ready"
    /\ llm_call.retry_count < max_retries
    /\ LET i == llm_call.attempts + 1
           r == stream_in[i]
           retry_count == llm_call.retry_count + 1
       IN IF r.outcome = "ok"
          THEN /\ llm_call' = [llm_call EXCEPT !.attempts = i, !.state = "done"]
               /\ pc' = "streamed"
          ELSE IF IsServerSideError(r.outcome) /\ retry_count < max_retries
          THEN /\ llm_call' = [llm_call EXCEPT !.attempts = i, !.state = "sleeping",
                                               !.retry_count = retry_count,
                                               !.delays = Append(@, BackoffDelay(retry_count))]
               /\ pc' = pc
          ELSE /\ llm_call' = [llm_call EXCEPT !.attempts = i, !.state = "done",
                                               !.retry_count = retry_count]
               /\ pc' = "streamed"
    /\ UNCHANGED <<wfworld, rule_in, rule_out, merge_in, merge_out, report_in,
                   report_out, crit_in, runs, checkpoints, stream_in, stream_out>>

RetryWake ==
    /\ pc = "stream"
    /\ llm_call.kind = "call"
    /\ llm_call.state = "sleeping"
    /\ llm_call' = [llm_call EXCEPT !.state = "ready"]
    /\ UNCHANGED <<pc, wfworld, rule_in, rule_out, merge_in, merge_out, report_in,
                   report_out, crit_in, runs, checkpoints, stream_in, stream_out>>

(***************************************************************************)
(* Two queries processed concurrently by one MultiAgentWorkflow: each      *)
(* process_query call runs the compiled graph on its own state, and the    *)
(* graph's checkpointer (self.memory, one MemorySaver for the instance)    *)
(* keeps the latest state written under the run's thread id, which is the  *)
(* query's session id.  A run's state is abstracted to the query that owns *)
(* it, its round counter, its decision, its workflow status and the owner  *)
(* of its final answer.                                                    *)
(***************************************************************************)
Queries == {1, 2}
Sessions == {"s1", "s2"}
NoRunState == [query |-> 0, current_round |-> 0, moderator_decision |-> "none",
               workflow_status |-> "none", final_answer |-> 0]
NoRunResponse == [query |-> 0, debate_rounds |-> 0, moderator_decision |-> "none",
                  answer |-> 0]

\* initialize_state for query q
InitialRunState(q) ==
    [query |-> q, current_round |-> 0, moderator_decision |-> "pending",
     workflow_status |-> "initialized", final_answer |-> 0]

\* _format_final_response(state_data)
FormatRunResponse(state_data) ==
    [query |-> state_data.query,
     debate_rounds |-> state_data.current_round,
     moderator_decision |-> state_data.moderator_decision,
     answer |-> state_data.final_answer]

\* The graph runs node n of query q on the run's state and the checkpointer
\* saves the resulting state under the run's thread id.
RunStep(q, node, new_state, next) ==
    /\ pc = "concurrent"
    /\ runs[q].stage = node
    /\ runs' = [runs EXCEPT ![q].state = new_state, ![q].stage = next]
    /\ checkpoints' = [checkpoints EXCEPT ![runs[q].session] = new_state]
    /\ UNCHANGED <<pc, wfworld, rule_in, rule_out, merge_in, merge_out, report_in,
                   report_out, crit_in, llm_call, stream_in, stream_out>>

\* process_query up to the first node: initialize_state, app.astream
QStart(q) ==
    /\ pc = "concurrent"
    /\ runs[q].stage = "new"
    /\ runs' = [runs EXCEPT ![q].state = InitialRunState(q), ![q].stage = "retrieve"]
    /\ checkpoints' = [checkpoints EXCEPT ![runs[q].session] = InitialRunState(q)]
    /\ UNCHANGED <<pc, wfworld, rule_in, rule_out, merge_in, merge_out, report_in,
                   report_out, crit_in, llm_call, stream_in, stream_out>>
\* RetrieveAgent.__call__: the status it stores, on success or failure
QRetrieve(q) ==
    \E status \in {"retrieving", "failed"} :
       RunStep(q, "retrieve", [runs[q].state EXCEPT !.workflow_status = status],
               "strategist")
\* StrategistAgent.__call__: the round counted, the status stored
QStrategist(q) ==
    \E status \in {"debating", "failed"} :
       RunStep(q, "strategist",
               [runs[q].state EXCEPT !.current_round = @ + 1,
                                     !.workflow_status = status], "critic")
\* CriticAgent.__call__: the status stored
QCritic(q) ==
    \E status \in {"debating", "failed"} :
       RunStep(q, "critic", [runs[q].state EXCEPT !.workflow_status = status],
               "moderator")
\* ModeratorAgent.__call__: the decision of the rules on the parsed decision
\* and the severity counts of the round's critiques; or, when the decision
\* chain raises, the failure decision and the status failed
QModerator(q) ==
    \E proposed \in Decisions, high \in 0..1, raised \in BOOLEAN :
       LET severity_counts == [critical |-> 0, high |-> high, medium |-> 0, low |-> 0]
           decision ==
             IF raised THEN FailureDecision(runs[q].state.moderator_decision)
             ELSE ApplyDecisionRules(proposed, severity_counts,
                                     runs[q].state.current_round, runs[q].max_rounds)
       IN RunStep(q, "moderator",
                  [runs[q].state EXCEPT
                     !.moderator_decision = decision,
                     !.workflow_status = IF raised THEN "failed" ELSE @],
                  NodeAfterModerator(decision))
QReporter(q) ==
    RunStep(q, "reporter", [runs[q].state EXCEPT !.final_answer = q], "tutor")
QTutor(q) == RunStep(q, "tutor", runs[q].state, "final")

\* self.app.aget_state(config).values: the latest checkpoint of the thread
GetState(q) == checkpoints[runs[q].session]

\* After astream ends: aget_state, _format_final_response, the complete event
QComplete(q) ==
    /\ pc = "concurrent"
    /\ runs[q].stage = "final"
    /\ runs' = [runs EXCEPT ![q].response = FormatRunResponse(GetState(q)),
                            ![q].stage = "done"]
    /\ UNCHANGED <<pc, wfworld, rule_in, rule_out, merge_in, merge_out, report_in,
                   report_out, crit_in, llm_call, checkpoints, stream_in, stream_out>>

InitConcurrent ==
    /\ pc = "concurrent"
    /\ initialize_state(1)
    /\ HistoryInit
    /\ rule_in = NoRule
    /\ rule_out = ""
    /\ merge_in = NoMerge
    /\ merge_out = <<>>
    /\ report_in = NoReport
    /\ report_out = NoReportOut
    /\ crit_in = NoCritIn
    /\ llm_call = NoCall
    /\ stream_in = NoStreamIn
    /\ stream_out = <<>>
    /\ runs \in [Queries -> {[session |-> sid, max_rounds |-> mr, stage |-> "new",
                               state |-> NoRunState, response |-> NoRunResponse] :
                                sid \in Sessions, mr \in 1..MaxRoundsBound}]
    /\ checkpoints = [sid \in Sessions |-> NoRunState]

NextConcurrent ==
    \E q \in Queries :
       \/ QStart(q)
       \/ QRetrieve(q)
       \/ QStrategist(q)
       \/ QCritic(q)
       \/ QModerator(q)
       \/ QReporter(q)
       \/ QTutor(q)
       \/ QComplete(q)

SpecConcurrent == InitConcurrent /\ [][NextConcurrent]_vars

(***************************************************************************)
(* Retrieval Orchestration as a function of what the retrieval service and *)
(* the quality chain return: one run of RetrieveAgent.__call__ on the      *)
(* initial workflow state.                                                 *)
(***************************************************************************)
InitRetrieval ==
    /\ pc = "retrieve"
    /\ initialize_state(1)
    /\ HistoryInit
    /\ rule_in = NoRule
    /\ rule_out = ""
    /\ merge_in = NoMerge
    /\ merge_out = <<>>
    /\ report_in = NoReport
    /\ report_out = NoReportOut
    /\ AuxIdle

NextRetrieval == RetrieveAny

SpecRetrieval == InitRetrieval /\ [][NextRetrieval]_vars

(***************************************************************************)
(* _merge_rag_results on source lists: a passage is the token sequence     *)
(* content.split() gives, merge_in ranges over pairs of source lists and   *)
(* ApplyMerge applies the merge.  Besides the short passages, two pairs of *)
(* long passages put the overlap exactly on 70% of the new passage: 7 of   *)
(* 10 tokens and 63 of 90 tokens.                                          *)
(***************************************************************************)
Tokens == {"a", "b"}
Passages == UNION {[1..n -> Tokens] : n \in 0..MaxTokens}
PassageLists == UNION {[1..n -> Passages] : n \in 0..MaxMergeList}
\* a passage of n distinct words
LongPassage(n) == [i \in 1..n |-> "w" \o ToString(i)]
LongMergeInputs ==
    {[initial |-> <<LongPassage(7)>>, alternative |-> <<LongPassage(10)>>],
     [initial |-> <<LongPassage(63)>>, alternative |-> <<LongPassage(90)>>]}

\* set(content.split())
TokenSet(p) == {p[i] : i \in DOMAIN p}

\* the largest power of two not above k (k >= 1)
RECURSIVE Pow2Floor(_)
Pow2Floor(k) == IF k < 2 THEN 1 ELSE 2 * Pow2Floor(k \div 2)

\* len * 0.7 in double-precision arithmetic falls below the exact 7 * len / 10.
\* The double nearest 0.7 is 0.7 - 0.4 * 2^-53, so for len = 10 * j the exact
\* product is 7 * j - j * 2^-51; it is rounded to 7 * j unless j * 2^-51
\* exceeds half the spacing of the doubles below 7 * j, which is
\* Pow2Floor(7 * j) * 2^-53.  This is so for len = 90, 170, 180, 330, ...
\* When 7 * len / 10 is not an integer the rounding cannot change the
\* comparison with an integer.
ProductRoundsBelow(len) ==
    /\ len > 0
    /\ len % 10 = 0
    /\ 4 * (len \div 10) > Pow2Floor(7 * (len \div 10))

\* len(set(new.split()) & set(existing.split())) > len(new.split()) * 0.7,
\* the product and the comparison in double precision
IsDuplicateOf(new, existing) ==
    LET overlap == Cardinality(TokenSet(new) \cap TokenSet(existing))
    IN \/ overlap * 10 > Len(new) * 7
       \/ overlap * 10 = Len(new) * 7 /\ ProductRoundsBelow(Len(new))

RECURSIVE MergeInto(_, _)
MergeInto(merged_sources, alternative_sources) ==
    IF alternative_sources = <<>> THEN merged_sources
    ELSE LET new_source == Head(alternative_sources)
             is_duplicate == \E k \in 1..Len(merged_sources) :
                                IsDuplicateOf(new_source, merged_sources[k])
         IN MergeInto(IF is_duplicate THEN merged_sources
                      ELSE Append(merged_sources, new_source),
                      Tail(alternative_sources))

\* _merge_rag_results: the merged "sources"
MergeRagResults(initial_sources, alternative_sources) ==
    MergeInto(initial_sources, alternative_sources)

InitMerge ==
    /\ pc = "merge"
    /\ initialize_state(1)
    /\ HistoryInit
    /\ rule_in = NoRule
    /\ rule_out = ""
    /\ merge_in \in {[initial |-> i, alternative |-> a] :
                       i \in PassageLists, a \in PassageLists}
                      \cup LongMergeInputs
    /\ merge_out = <<>>
    /\ report_in = NoReport
    /\ report_out = NoReportOut
    /\ AuxIdle

ApplyMerge ==
    /\ pc = "merge"
    /\ pc' = "merged"
    /\ merge_out' = MergeRagResults(merge_in.initial, merge_in.alternative)
    /\ UNCHANGED <<max_rounds, current_round, retrieval_results,
                   retrieval_quality_score, retrieval_strategy, speculative_queries,
                   draft, critiques, moderator_decision, moderator_feedback,
                   convergence_score, workflow_status, error_messages, final_answer,
                   events, response, calls, retrieval_failed, formatted_retrieval_output,
                   retr_in, alt_retrievals, proposal, proposal_text, mod_round,
                   critic_kind, critiqued, strat_resp, rule_in, rule_out, merge_in, report_in, report_out, auxvars>>

NextMerge == ApplyMerge

SpecMerge == InitMerge /\ [][NextMerge]_vars

(***************************************************************************)
(* One draft generation as a function of the chain's response: InitDraft   *)
(* is the state the strategist node is entered in, either after retrieval  *)
(* (round 0, no draft, no feedback) or after a decision to iterate (round  *)
(* 1, the previous draft and the moderator's feedback present).            *)
(***************************************************************************)
InitDraft ==
    /\ pc = "strategist"
    /\ max_rounds = MaxRoundsBound
    /\ retrieval_results = 1
    /\ retrieval_quality_score = 90
    /\ retrieval_strategy = "initial"
    /\ speculative_queries = 0
    /\ formatted_retrieval_output = "results"
    /\ \/ /\ current_round = 0
          /\ draft = NoDraft
          /\ critiques = <<>>
          /\ moderator_decision = "pending"
          /\ moderator_feedback = NoFeedback
          /\ convergence_score = 0
          /\ workflow_status = "retrieving"
          /\ events = <<"retrieve">>
          /\ calls = [n \in {"retrieve", "strategist", "critic", "moderator", "reporter",
                             "tutor"} |-> IF n = "retrieve" THEN 1 ELSE 0]
          /\ mod_round = 0
          /\ critic_kind = "none"
          /\ critiqued = NoCritique
       \/ /\ current_round = 1
          /\ draft \in {[draft_id |-> 1, content |-> c] : c \in {"llm", "fallback"}}
          /\ critiques = <<"high">>
          /\ moderator_decision = "iterate"
          /\ moderator_feedback = "detailed feedback"
          /\ convergence_score = DefaultScore
          /\ workflow_status = "debating"
          /\ events = <<"retrieve", "strategist", "critic", "moderator">>
          /\ calls = [n \in {"retrieve", "strategist", "critic", "moderator", "reporter",
                             "tutor"} |-> IF n \in {"reporter", "tutor"} THEN 0 ELSE 1]
          /\ mod_round = 1
          /\ critic_kind = "other"
          /\ critiqued = [round |-> 1, draft_id |-> 1]
    /\ error_messages = <<>>
    /\ final_answer = NoAnswer
    /\ response = NoResponse
    /\ retrieval_failed = FALSE
    /\ retr_in = NoRetrieval
    /\ alt_retrievals = 0
    /\ proposal = "none"
    /\ proposal_text = "none"
    /\ strat_resp = FailedResponse
    /\ rule_in = NoRule
    /\ rule_out = ""
    /\ merge_in = NoMerge
    /\ merge_out = <<>>
    /\ report_in = NoReport
    /\ report_out = NoReportOut
    /\ AuxIdle

NextDraft == StrategistAny

SpecDraft == InitDraft /\ [][NextDraft]_vars

(***************************************************************************)
(* ReporterAgent.process as a function of its input: the debate status,    *)
(* the synthesis response (its text, "" when the call failed or returned   *)
(* nothing, and the "## " headings the text holds), the draft content, the *)
(* number of context items and the quality score.                          *)
(***************************************************************************)
Headings == {"INTRODUCTION", "STEP-BY-STEP SOLUTION", "STEP BY STEP SOLUTION",
             "PARTIAL SOLUTION"}
\* line[3:].strip().lower().replace(' ', '_')
SectionKey(h) ==
    CASE h = "INTRODUCTION" -> "introduction"
      [] h = "STEP-BY-STEP SOLUTION" -> "step-by-step_solution"
      [] h = "STEP BY STEP SOLUTION" -> "step_by_step_solution"
      [] h = "PARTIAL SOLUTION" -> "partial_solution"
SynthesisResponses ==
    {[text |-> "", headings |-> {}]}
      \cup {[text |-> "text", headings |-> hs] : hs \in SUBSET Headings}
\* final_draft_status['quality_score'], in hundredths
QualityScores == {0, DefaultScore, 70, 71, 90, 100}
DebateStatuses == {"approved", "deadlock", "unexpected"}
ReportInputs ==
    {[status |-> st, response |-> r, draft_content |-> d, context |-> n,
      quality_score |-> q] :
        st \in DebateStatuses, r \in SynthesisResponses, d \in {"", "draft"},
        n \in 0..MaxContext, q \in QualityScores}

\* sections.get(key, default): the section's content, or the default
SectionOr(resp, key, default) ==
    IF \E h \in resp.headings : SectionKey(h) = key THEN "section " \o key
    ELSE default

ApprovedKeys == {"introduction", "step_by_step_solution", "key_takeaways",
                 "important_notes"}
DeadlockKeys == {"partial_solution", "areas_of_uncertainty", "what_we_can_conclude",
                 "recommendations_for_further_exploration"}

\* _parse_structured_answer with no default for a missing solution section
M_ParseStructuredAnswer_NoDefault(resp, deadlock_mode) ==
    IF deadlock_mode
    THEN [keys |-> DeadlockKeys,
          step |-> "None",
          text |-> [k \in DeadlockKeys |->
                      SectionOr(resp, k, IF k = "partial_solution" THEN "response" ELSE "")]]
    ELSE LET found == SectionOr(resp, "step-by-step_solution",
                                SectionOr(resp, "step_by_step_solution", "None"))
             present == {"introduction", "key_takeaways", "important_notes"}
                          \cup (IF found = "None" THEN {} ELSE {"step_by_step_solution"})
         IN [keys |-> present,
             step |-> found,
             text |-> [k \in present |->
                         IF k = "step_by_step_solution" THEN found
                         ELSE SectionOr(resp, k, "")]]

\* _parse_structured_answer: the keys of the answer, the content of its
\* step_by_step_solution section and the text of every section
ParseStructuredAnswer(resp, deadlock_mode) ==
    IF deadlock_mode
    THEN [keys |-> DeadlockKeys,
          step |-> "None",
          text |-> [k \in DeadlockKeys |->
                      SectionOr(resp, k, IF k = "partial_solution" THEN "response" ELSE "")]]
    ELSE LET solution == SectionOr(resp, "step-by-step_solution",
                                   SectionOr(resp, "step_by_step_solution", "response"))
         IN [keys |-> ApprovedKeys,
             step |-> solution,
             text |-> [k \in ApprovedKeys |->
                         IF k = "step_by_step_solution" THEN solution
                         ELSE SectionOr(resp, k, "")]]

\* agent_input.query: the query of the synthesis inputs
original_query == "question"

\* _create_fallback_structure
CreateFallbackStructure(content) ==
    LET solution == IF content = "" THEN "Unable to generate complete solution."
                    ELSE content
    IN [keys |-> ApprovedKeys,
        step |-> solution,
        text |-> [k \in ApprovedKeys |->
                    CASE k = "introduction" -> "Addressing your question: " \o original_query
                      [] k = "step_by_step_solution" -> solution
                      [] k = "key_takeaways" ->
                           "This response was generated with limited verification."
                      [] k = "important_notes" ->
                           "Please verify this information with additional sources."]]

\* _synthesize_fallback_answer
SynthesizeFallbackAnswer(content) ==
    LET solution == IF content = "" THEN "Unable to generate complete solution."
                    ELSE content
    IN [keys |-> ApprovedKeys,
        step |-> solution,
        text |-> [k \in ApprovedKeys |->
                    CASE k = "introduction" -> "In response to your query: " \o original_query
                      [] k = "step_by_step_solution" -> solution
                      [] k = "key_takeaways" ->
                           "Additional analysis would be needed for complete insights."
                      [] k = "important_notes" ->
                           "This response may require further verification."]]

\* _synthesize_approved_answer: an empty response raises into the fallback
SynthesizeApprovedAnswer(resp, draft_content) ==
    IF resp.text # "" THEN ParseStructuredAnswer(resp, FALSE)
    ELSE CreateFallbackStructure(draft_content)

\* _synthesize_deadlock_answer
SynthesizeDeadlockAnswer(resp, draft_content) ==
    IF resp.text # "" THEN ParseStructuredAnswer(resp, TRUE)
    ELSE [keys |-> {"partial_solution", "areas_of_uncertainty", "recommendations"},
          step |-> "None",
          text |-> [k \in {"partial_solution", "areas_of_uncertainty", "recommendations"} |->
                      IF k = "partial_solution"
                      THEN (IF draft_content = ""
                            THEN "Unable to provide complete solution due to unresolved issues."
                            ELSE draft_content)
                      ELSE IF k = "areas_of_uncertainty"
                      THEN "Multiple technical issues prevented full verification of this response."
                      ELSE "Please consult additional authoritative sources for verification."]]

\* _enhance_with_metadata: one source line per item of context[:5]
SourcesListed(context) == Min(context, MaxSources)
EnhanceWithMetadata(answer, context, quality_score) ==
    [keys |-> answer.keys \cup {"confidence_score", "sources", "quality_indicators"},
     step |-> answer.step,
     text |-> answer.text,
     sources |-> SourcesListed(context),
     confidence_score |-> quality_score]

\* _format_answer_for_streaming: one headed part for each of the four
\* sections answer.get finds non-empty, the parts joined by "\n"
StreamedSections ==
    <<[key |-> "introduction", heading |-> "## Introduction\n"],
      [key |-> "step_by_step_solution", heading |-> "## Step-by-Step Solution\n"],
      [key |-> "key_takeaways", heading |-> "## Key Takeaways\n"],
      [key |-> "important_notes", heading |-> "## Important Notes\n"]>>
RECURSIVE PartsFrom(_, _)
PartsFrom(answer, i) ==
    IF i > Len(StreamedSections) THEN <<>>
    ELSE LET k == StreamedSections[i].key
         IN (IF k \in DOMAIN answer.text /\ answer.text[k] # ""
             THEN <<StreamedSections[i].heading \o answer.text[k] \o "\n">>
             ELSE <<>>) \o PartsFrom(answer, i + 1)
\* "\n".join(parts)
RECURSIVE JoinLines(_)
JoinLines(parts) ==
    IF parts = <<>> THEN ""
    ELSE IF Len(parts) = 1 THEN parts[1]
    ELSE parts[1] \o "\n" \o JoinLines(Tail(parts))
FormatAnswerForStreaming(answer) == JoinLines(PartsFrom(answer, 1))

\* ReporterAgent.process: content["final_answer"]
ProcessReport(in) ==
    LET answer ==
          IF in.status = "approved"
          THEN SynthesizeApprovedAnswer(in.response, in.draft_content)
          ELSE IF in.status = "deadlock"
               THEN SynthesizeDeadlockAnswer(in.response, in.draft_content)
          ELSE SynthesizeFallbackAnswer(in.draft_content)
    IN EnhanceWithMetadata(answer, in.context, in.quality_score)

InitReport ==
    /\ pc = "report"
    /\ initialize_state(1)
    /\ HistoryInit
    /\ rule_in = NoRule
    /\ rule_out = ""
    /\ merge_in = NoMerge
    /\ merge_out = <<>>
    /\ report_in \in ReportInputs
    /\ report_out = NoReportOut
    /\ AuxIdle

ApplyReport ==
    /\ pc = "report"
    /\ pc' = "reported"
    /\ report_out' = ProcessReport(report_in)
    /\ UNCHANGED <<max_rounds, current_round, retrieval_results,
                   retrieval_quality_score, retrieval_strategy, speculative_queries,
                   draft, critiques, moderator_decision, moderator_feedback,
                   convergence_score, workflow_status, error_messages, final_answer,
                   events, response, calls, retrieval_failed, formatted_retrieval_output,
                   retr_in, alt_retrievals, proposal, proposal_text, mod_round,
                   critic_kind, critiqued, strat_resp, rule_in, rule_out, merge_in, merge_out,
                   report_in, auxvars>>

NextReport == ApplyReport

SpecReport == InitReport /\ [][NextReport]_vars

\* process_streaming for a debate status other than approved, up to the
\* return of await self.process: the answer is computed, nothing of it is
\* delivered yet.
StreamProcessed ==
    /\ pc = "stream"
    /\ llm_call.kind = "process"
    /\ llm_call.state = "ready"
    /\ report_in.status # "approved"
    /\ report_out' = ProcessReport(report_in)
    /\ llm_call' = [llm_call EXCEPT !.state = "streaming"]
    /\ UNCHANGED <<pc, wfworld, rule_in, rule_out, merge_in, merge_out, report_in,
                   crit_in, runs, checkpoints, stream_in, stream_out>>

\* The loop of process_streaming over the formatted text, from the answer
\* or from one yield to the next: full_text[i:i+chunk_size] is passed on,
\* llm_call.sent chunks before it; the generator returns when the text is
\* used up.
StreamFormatted ==
    /\ pc = "stream"
    /\ llm_call.kind = "process"
    /\ llm_call.state \in {"streaming", "yielded"}
    /\ LET full_text == FormatAnswerForStreaming(report_out)
           i == llm_call.sent * chunk_size
       IN IF i < Len(full_text)
          THEN /\ stream_out' =
                    Append(stream_out,
                           SubSeq(full_text, i + 1, Min(i + chunk_size, Len(full_text))))
               /\ llm_call' = [llm_call EXCEPT !.sent = @ + 1, !.state = "yielded"]
               /\ pc' = pc
          ELSE /\ stream_out' = stream_out
               /\ llm_call' = [llm_call EXCEPT !.state = "done"]
               /\ pc' = "streamed"
    /\ UNCHANGED <<wfworld, rule_in, rule_out, merge_in, merge_out, report_in,
                   report_out, crit_in, runs, checkpoints, stream_in>>

InitStream ==
    /\ pc = "stream"
    /\ initialize_state(1)
    /\ HistoryInit
    /\ rule_in = NoRule
    /\ rule_out = ""
    /\ merge_in = NoMerge
    /\ merge_out = <<>>
    /\ report_out = NoReportOut
    /\ crit_in = NoCritIn
    /\ runs = <<>>
    /\ checkpoints = <<>>
    /\ stream_out = <<>>
    /\ \/ /\ llm_call \in {[kind |-> k, retry_count |-> 0, attempts |-> 0, sent |-> 0,
                              delays |-> <<>>, state |-> "ready"] :
                               k \in {"stream", "call"}}
          /\ stream_in \in OfferedAttempts
          /\ report_in = NoReport
       \/ /\ llm_call = [kind |-> "process", retry_count |-> 0, attempts |-> 0, sent |-> 0,
                         delays |-> <<>>, state |-> "ready"]
          /\ stream_in = NoStreamIn
          /\ report_in \in {in \in ReportInputs : in.status # "approved"}

NextStream ==
    \/ StreamAttempt
    \/ StreamResume
    \/ StreamClose
    \/ StreamWake
    \/ RetryAttempt
    \/ RetryWake
    \/ StreamProcessed
    \/ StreamFormatted

SpecStream == InitStream /\ [][NextStream]_vars

(***************************************************************************)
(* The decision rules as a pure function: rule_in ranges over proposals,   *)
(* severity tallies, rounds and round limits; ApplyRules applies           *)
(* _apply_decision_rules to it.                                            *)
(***************************************************************************)
RuleInputs ==
    {[decision |-> d, critical |-> c, high |-> h, medium |-> m, low |-> l,
      current_round |-> r, max_rounds |-> mr] :
        d \in Decisions, c \in 0..MaxTally, h \in 0..MaxTally, m \in 0..MaxTally,
        l \in 0..MaxTally, r \in 1..RoundCap, mr \in 1..MaxRoundsBound}

TallyOf(in) ==
    [critical |-> in.critical, high |-> in.high, medium |-> in.medium, low |-> in.low]

InitRules ==
    /\ pc = "rules"
    /\ initialize_state(1)
    /\ HistoryInit
    /\ rule_in \in RuleInputs
    /\ rule_out = ""
    /\ merge_in = NoMerge
    /\ merge_out = <<>>
    /\ report_in = NoReport
    /\ report_out = NoReportOut
    /\ AuxIdle

ApplyRules ==
    /\ pc = "rules"
    /\ rule_out = ""
    /\ rule_out' = ApplyDecisionRules(rule_in.decision, TallyOf(rule_in),
                                      rule_in.current_round, rule_in.max_rounds)
    /\ UNCHANGED <<pc, wfworld, rule_in, merge_in, merge_out, report_in, report_out, auxvars>>

NextRules == ApplyRules

SpecRules == InitRules /\ [][NextRules]_vars

(***************************************************************************)
(* Properties.                                                             *)
(***************************************************************************)
TerminalDecisions == {"converged", "abort_deadlock", "escalate_with_warning"}
Last(seq) == seq[Len(seq)]
\* The moderator has run for the current round.
Decided == mod_round >= 1 /\ mod_round = current_round
TerminalEvents == {i \in 1..Len(events) : events[i] \in {"complete", "error"}}

\* Steps a run can still take: three per round left, plus the rest of the
\* current round or of the synthesis.
StageRank ==
    CASE pc = "retrieve" -> 9 [] pc = "strategist" -> 8 [] pc = "critic" -> 10
      [] pc = "moderator" -> 9 [] pc = "reporter" -> 3 [] pc = "tutor" -> 2
      [] pc = "final" -> 1 [] OTHER -> 0
StepsLeft == 3 * (max_rounds - current_round) + StageRank

\* C1: every run reaches the terminal state of the Loop Driver, and the
\* Draft Generator is invoked at most max_rounds times before it does:
\* every step of the run lowers a natural-valued measure, only the terminal
\* state has no next step, and the strategist is called at most max_rounds times.
C1_Terminates ==
    /\ [](/\ StepsLeft >= 0
          /\ calls["strategist"] <= max_rounds
          /\ pc # "done" => ENABLED Next)
    /\ [][StepsLeft' < StepsLeft]_vars
C1_Witness ==
    /\ pc = "done"
    /\ max_rounds = 2
    /\ calls["strategist"] = 2
    /\ Len(error_messages) > 0

\* C2: once the moderator has run for a round, the stored decision is not
\* converged when that round's issue list holds a critical issue.
C2_NoConvergedWithCritical ==
    (Decided /\ CountOf(critiques, "critical") > 0) => moderator_decision # "converged"
C2_Witness ==
    /\ Decided
    /\ proposal = "converged"
    /\ CountOf(critiques, "critical") = 1
    /\ moderator_decision = "iterate"

\* C3 as stated: with max_rounds = 2 and exactly one critical issue every
\* round, round 1 decides iterate and round 2 abort_deadlock for every proposal.
C3_Original ==
    (max_rounds = 2 /\ critic_kind = "one_critical" /\ Decided /\ proposal # "failed")
      => /\ (current_round = 1 => moderator_decision = "iterate")
         /\ (current_round = 2 => moderator_decision = "abort_deadlock")
\* C3 amended: round 1 decides iterate when the proposal is converged or
\* iterate (an unrecognized proposal counts as iterate) and keeps a proposal
\* of abort_deadlock or escalate_with_warning; round 2 decides abort_deadlock.
C3_Amended ==
    (max_rounds = 2 /\ critic_kind = "one_critical" /\ Decided)
      => /\ (current_round = 1 /\ proposal \in {"converged", "iterate"}
               => moderator_decision = "iterate")
         /\ (current_round = 1 /\ proposal \in {"abort_deadlock", "escalate_with_warning"}
               => moderator_decision = proposal)
         /\ (current_round = 2 => moderator_decision = "abort_deadlock")
C3_Witness ==
    /\ max_rounds = 2
    /\ critic_kind = "one_critical"
    /\ Decided
    /\ current_round = 2
    /\ proposal = "converged"
    /\ moderator_decision = "abort_deadlock"

\* C4 as stated: with max_rounds = 1 and zero issues the decision of round 1
\* is converged for every proposal.
C4_Original ==
    (max_rounds = 1 /\ critic_kind = "zero" /\ Decided /\ proposal # "failed")
      => moderator_decision = "converged"
\* C4 amended: with zero issues the decision of round 1 is abort_deadlock
\* when max_rounds = 1 and converged when max_rounds >= 2, for every proposal.
C4_Amended ==
    (critic_kind = "zero" /\ Decided /\ current_round = 1 /\ proposal # "failed")
      => moderator_decision = IF max_rounds = 1 THEN "abort_deadlock" ELSE "converged"
C4_Witness ==
    /\ max_rounds = 1
    /\ critic_kind = "zero"
    /\ Decided
    /\ proposal = "converged"
    /\ moderator_decision = "abort_deadlock"

\* The rule table of the claim: the result of the first matching rule.
RuleTable(in) ==
    <<[when |-> in.current_round >= in.max_rounds, then |-> "abort_deadlock"],
      [when |-> in.decision = "converged" /\ in.critical >= 1, then |-> "iterate"],
      [when |-> in.critical >= 2, then |-> "escalate_with_warning"],
      [when |-> in.critical + in.high = 0 /\ in.medium <= 1, then |-> "converged"],
      [when |-> TRUE, then |-> in.decision]>>
FirstMatch(in) ==
    LET table == RuleTable(in)
        first == CHOOSE i \in 1..Len(table) :
                    table[i].when /\ \A j \in 1..(i - 1) : ~table[j].when
    IN table[first].then

\* C5: the decision returned by the override step is the result of the first
\* matching rule of (a)..(e) (checked under SpecRules).
C5_FirstMatchWins == rule_out # "" => rule_out = FirstMatch(rule_in)
C5_Witness ==
    /\ rule_out = "iterate"
    /\ rule_in.decision = "converged"
    /\ rule_in.critical = 2
    /\ rule_in.current_round < rule_in.max_rounds

\* C6: a Draft Generator invocation raises the round counter by exactly 1,
\* whether it succeeds or fails, no other stage changes it, and after k
\* invocations the counter is k.
C6_RoundCounter ==
    /\ [](calls["strategist"] = current_round)
    /\ [][current_round' = IF pc = "strategist" THEN current_round + 1
                           ELSE current_round]_vars
C6_Witness ==
    /\ calls["strategist"] = 2
    /\ current_round = 2
    /\ pc = "critic"
    /\ workflow_status = "failed"
    /\ draft.draft_id = 1

\* C7: when the proposal call fails, the decision stored for the round is
\* abort_deadlock and the run goes on to synthesis, with no error event.
C7_ProposalFailure ==
    proposal = "failed"
      => /\ moderator_decision = "abort_deadlock"
         /\ pc = "reporter" \/ calls["reporter"] = 1
         /\ pc = "reporter" => Last(events) = "moderator"
C7_Witness ==
    /\ proposal = "failed"
    /\ pc = "reporter"
    /\ current_round = 1
    /\ max_rounds = 2

\* C8: after a failed initial retrieval call the Draft Generator, the
\* Critique Engine and the Decision Controller are never invoked.
C8_AbortOnRetrievalFailure ==
    retrieval_failed
      => calls["strategist"] = 0 /\ calls["critic"] = 0 /\ calls["moderator"] = 0

\* C9: a run delivers exactly one terminal event (complete or error), and
\* nothing after it.
C9_OneTerminalEvent ==
    /\ Cardinality(TerminalEvents) <= 1
    /\ TerminalEvents # {} => TerminalEvents = {Len(events)}
    /\ pc = "done" <=> TerminalEvents # {}
C9_Witness ==
    /\ pc = "done"
    /\ Last(events) = "error"
    /\ Len(error_messages) > 0

\* C10: retrieval runs once, then rounds of draft, critique, decision; iterate
\* is followed by a draft, a terminal decision by synthesis, which runs once
\* and is followed by no draft, critique or decision.
C10_StageOrder ==
    /\ [](/\ calls["retrieve"] = (IF pc = "retrieve" THEN 0 ELSE 1)
          /\ calls["reporter"] <= 1
          /\ calls["reporter"] = 1 <=> pc \in {"tutor", "final", "done"}
          /\ pc = "reporter" => moderator_decision \in TerminalDecisions
          /\ calls["critic"] = calls["strategist"] - (IF pc = "critic" THEN 1 ELSE 0)
          /\ calls["moderator"] = calls["critic"] - (IF pc = "moderator" THEN 1 ELSE 0))
    /\ [][/\ pc = "retrieve" => pc' = "strategist"
          /\ pc = "strategist" => pc' = "critic"
          /\ pc = "critic" => pc' = "moderator"
          /\ pc = "moderator" =>
               \/ moderator_decision' = "iterate" /\ pc' = "strategist"
               \/ moderator_decision' \in TerminalDecisions /\ pc' = "reporter"
          /\ pc \in {"reporter", "tutor", "final", "done"} =>
               pc' \in {"tutor", "final", "done"}]_vars

\* C11: when the decision stored after a moderator run is terminal, the
\* stored feedback is null, also when an earlier round had stored feedback.
C11_TerminalFeedbackNull ==
    (Decided /\ moderator_decision \in TerminalDecisions)
      => moderator_feedback = NoFeedback

\* C13: after every moderator run, successful or failed and whatever the
\* DECISION text, one decision is stored for the round and it is one of the
\* four recognized values, so the graph never ends from the moderator node.
C13_DecisionRecognized ==
    /\ mod_round = calls["moderator"]
    /\ calls["moderator"] >= 1 => moderator_decision \in Decisions
    /\ pc = "final" => calls["tutor"] = 1
C13_Witness ==
    /\ Decided
    /\ proposal_text = "undecided"
    /\ CountOf(critiques, "high") = 1
    /\ moderator_decision = "iterate"
    /\ pc = "strategist"
\* What the retrieval run recorded in retr_in was given.
InitialQuality == AssessQuality(ConvertRag(retr_in.rag), retr_in.q1)
AltScore(i) == AssessQuality(ConvertRag(retr_in.alts[i].rag), retr_in.alts[i].q)
AltSucceeded(i) == retr_in.alts[i].rag.ok /\ retr_in.alts[i].rag.success
\* The alternative whose result was merged, when the label says one was.
SelectedAlt ==
    IF \E i \in 1..MaxAlternatives : retrieval_strategy = RefinedLabel(i)
    THEN BestAlternative(retr_in.alts)
    ELSE 0
\* The retrieval run has returned after a successful initial call.
Retrieved == pc = "strategist" /\ retr_in.rag.ok

\* C14: an alternative is selected for merging only if its quality score is
\* strictly greater than the initial set's; when alternatives were retrieved
\* and none scores strictly higher, the label is initial_only and the
\* passages returned are the initial ones (checked under SpecRetrieval).
C14_StrictlyBetterAlternative ==
    Retrieved =>
      /\ SelectedAlt > 0 => AltScore(SelectedAlt) > InitialQuality
      /\ (/\ alt_retrievals > 0
          /\ \A i \in 1..Len(retr_in.alts) :
                ~(AltSucceeded(i) /\ AltScore(i) > InitialQuality))
           => /\ retrieval_strategy = "initial_only"
              /\ retrieval_results = Min(ConvertRag(retr_in.rag), TopResults)

\* C16: when the initial quality score is not below the threshold, no
\* alternative query is generated, no alternative retrieval is issued, the
\* label is initial and the passages returned are the initial ones, at most
\* TopResults of them (checked under SpecRetrieval).
C16_GoodInitialKept ==
    (Retrieved /\ InitialQuality >= min_quality_threshold)
      => /\ speculative_queries = 0
         /\ alt_retrievals = 0
         /\ retrieval_strategy = "initial"
         /\ retrieval_results = Min(ConvertRag(retr_in.rag), TopResults)
         /\ retrieval_quality_score = InitialQuality
C16_Witness ==
    /\ Retrieved
    /\ InitialQuality = min_quality_threshold
    /\ Len(retr_in.alts) = MaxAlternatives
    /\ AltSucceeded(1) /\ AltScore(1) = 90
    /\ retr_in.rag.n = TopResults + 1
    /\ retrieval_results = TopResults
    /\ retrieval_strategy = "initial"

\* C17: when the initial retrieval returns zero passages and every
\* alternative retrieval fails, the run does not raise: it completes with
\* formatted output no_results and an empty passage list, the failed
\* alternatives being left out of the selection (checked under SpecRetrieval).
C17_NoResults ==
    (/\ Retrieved
     /\ ConvertRag(retr_in.rag) = 0
     /\ \A i \in 1..Len(retr_in.alts) : ~AltSucceeded(i))
      => /\ workflow_status = "retrieving"
         /\ error_messages = <<>>
         /\ formatted_retrieval_output = "no_results"
         /\ retrieval_results = 0
         /\ SelectedAlt = 0
         /\ speculative_queries = Len(retr_in.alts)
C17_Witness ==
    /\ Retrieved
    /\ retr_in.rag.success /\ retr_in.rag.n = 0
    /\ Len(retr_in.alts) = MaxAlternatives
    /\ \A i \in 1..MaxAlternatives : ~AltSucceeded(i)
    /\ \E i \in 1..MaxAlternatives : ~retr_in.alts[i].rag.ok
    /\ formatted_retrieval_output = "no_results"
    /\ retrieval_strategy = "initial_only"
\* Two passages share more than 70% of their tokens: the tokens they have in
\* common are more than 70% of the distinct tokens of each.
ShareOver70(p, q) ==
    LET common == Cardinality(TokenSet(p) \cap TokenSet(q))
    IN /\ common * 10 > 7 * Cardinality(TokenSet(p))
       /\ common * 10 > 7 * Cardinality(TokenSet(q))
MergeInputs == merge_in.initial \o merge_in.alternative

\* C15: in the merged list no two passages share more than 70% of their
\* tokens, and an input passage that shares no token with any other input
\* passage is kept (checked under SpecMerge).
C15_MergeDedup ==
    pc = "merged" =>
      /\ \A i, j \in 1..Len(merge_out) :
            i < j => ~ShareOver70(merge_out[i], merge_out[j])
      /\ \A i \in 1..Len(MergeInputs) :
            (\A j \in 1..Len(MergeInputs) :
                j # i => TokenSet(MergeInputs[i]) \cap TokenSet(MergeInputs[j]) = {})
              => \E k \in 1..Len(merge_out) : merge_out[k] = MergeInputs[i]
\* A braced token that is a variable of a prompt template never substituted:
\* a name of lower-case letters and underscores, such as {query}.
IsTemplateToken(braced) ==
    braced # <<>> /\ \A i \in DOMAIN braced : braced[i] \in {"l", "_"}
\* The strategist node has just run.
Drafted == pc = "critic" /\ calls["strategist"] = current_round

\* C18: whatever the chain returns and whichever parse path is taken, a
\* response whose answer text holds an unresolved placeholder token is not
\* stored as the draft's content: the stored content is the fallback text
\* (checked under SpecDraft).
C18_PlaceholderNeverStored ==
    (Drafted /\ IsTemplateToken(strat_resp.braced))
      => /\ strat_resp.ok
         /\ draft = [draft_id |-> current_round, content |-> "fallback"]
C18_Witness ==
    /\ Drafted
    /\ current_round = 2
    /\ strat_resp.parse = "embedded"
    /\ strat_resp.body = "answer"
    /\ strat_resp.braced = <<"l", "l">>
    /\ ~strat_resp.raises
    /\ draft = [draft_id |-> 2, content |-> "fallback"]
\* C19: for an approved outcome the answer holds a step_by_step_solution
\* section whether the synthesis call gives headed text, text without the
\* expected headings, or nothing, and it lists at most min(MaxSources,
\* number of context items) sources, so at most 3 for 3 items (checked
\* under SpecReport).
C19_ApprovedAnswerShape ==
    (pc = "reported" /\ report_in.status = "approved")
      => /\ "step_by_step_solution" \in report_out.keys
         /\ report_out.step # "None"
         /\ report_out.sources <= Min(MaxSources, report_in.context)
         /\ report_in.context = 3 => report_out.sources <= 3
C19_Witness ==
    /\ pc = "reported"
    /\ report_in.status = "approved"
    /\ report_in.response = [text |-> "text", headings |-> {"INTRODUCTION"}]
    /\ report_in.context = MaxSources + 1
    /\ report_out.step = "response"
    /\ report_out.sources = MaxSources

\* C21: once the Decision Controller has decided a round, the issue list it
\* inspected was stored in that round by a critique of the draft generated in
\* that round.
C21_FreshCritique ==
    (mod_round > 0 /\ mod_round = current_round
       /\ pc \in {"strategist", "reporter", "tutor", "final", "done"})
      => critiqued = [round |-> mod_round, draft_id |-> mod_round]

\* The issues of the checks of the last critique run, the one named by
\* skipped left out.
FoundBy(skipped) ==
    (IF skipped = "logic" THEN <<>> ELSE LogicIssues(crit_in.raw))
      \o (IF skipped = "fact" THEN <<>> ELSE FactIssues(crit_in.raw))
      \o (IF skipped = "hallucination" THEN <<>> ELSE HallucinationIssues(crit_in.raw))

\* C22: when one of the three checks fails and the others return, the
\* critique does not fail and the stored issue list is exactly the issues of
\* the checks that returned (checked under SpecCritique).
C22_PartialCritique ==
    (pc = "moderator" /\ crit_in.failed \in {"logic", "fact", "hallucination"})
      => /\ workflow_status # "failed"
         /\ error_messages = <<>>
         /\ critiques = FoundBy(crit_in.failed)

\* C23: the stored issue list and the decision of the round are those the
\* responses of the three checks give, whatever the assessment call returns
\* and whether it returns or raises (checked under SpecCritique).
C23_AssessmentNoInfluence ==
    crit_in.failed \in {"none", "assessment"}
      => /\ pc = "moderator" => critiques = FoundBy("none")
         /\ (pc \notin {"critic", "moderator"} /\ proposal # "failed")
              => moderator_decision =
                   ApplyDecisionRules(proposal, AnalyzeSeverity(FoundBy("none")),
                                      current_round, max_rounds)

\* C24: for a deadlock outcome the confidence score of the answer is at most
\* 0.7 (70 hundredths), whatever quality score the synthesis is given
\* (checked under SpecReport).
C24_DeadlockConfidenceCapped ==
    (pc = "reported" /\ report_in.status = "deadlock")
      => report_out.confidence_score <= 70

\* C25: a completion call makes at most 3 attempts; every attempt but the
\* last one made ended in a transient error, so a permanent error or a third
\* failure is followed by no attempt; the delays slept before the further
\* attempts are 1 and then 2 seconds, one for each further attempt (checked
\* under SpecStream, for the streamed and the plain call, in every state of
\* the call; a call that ran to its end is in state "done").
C25_BoundedRetries ==
    (pc \in {"stream", "streamed"} /\ llm_call.kind \in {"stream", "call"})
      => /\ llm_call.attempts <= 3
         /\ \A i \in 1..(llm_call.attempts - 1) : stream_in[i].outcome = "transient"
         /\ Len(llm_call.delays) =
              IF llm_call.state \in {"ready", "sleeping"} THEN llm_call.attempts
              ELSE llm_call.attempts - 1
         /\ \A i \in 1..Len(llm_call.delays) :
              llm_call.delays[i] = IF i = 1 THEN 1 ELSE 2 * llm_call.delays[i - 1]
         /\ (pc = "streamed" /\ llm_call.state = "done" /\ llm_call.attempts < 3)
              => stream_in[llm_call.attempts].outcome \in {"ok", "permanent"}
C25_Witness ==
    /\ pc = "streamed"
    /\ llm_call.kind = "stream"
    /\ llm_call.state = "done"
    /\ llm_call.attempts = 3
    /\ llm_call.delays = <<1, 2>>
    /\ \A i \in 1..3 : stream_in[i].outcome = "transient"
    /\ stream_in[4].outcome = "ok"

\* C26: with two queries in progress on one workflow instance, with equal or
\* different session ids, the response of a completed query is built from
\* that query's own state: its own round count, decision and final answer
\* (checked under SpecConcurrent).
C26_OwnStateOnly ==
    pc = "concurrent"
      => \A q \in Queries :
            runs[q].stage = "done"
              => runs[q].response = FormatRunResponse(runs[q].state)

\* The error-message log after a step extends the log before it.
LogExtended ==
    /\ Len(error_messages') >= Len(error_messages)
    /\ SubSeq(error_messages', 1, Len(error_messages)) = error_messages

\* C27: an error recovered during the query adds an entry to the
\* error-message log (here: a draft response that cannot be parsed, or whose
\* parsed object cannot be used, and is replaced by the fallback text), and
\* no entry of the log is ever removed or changed (checked under SpecDraft,
\* which starts with an empty log).
C27_RecoveredErrorsLogged ==
    /\ []((Drafted /\ strat_resp.ok /\ (strat_resp.parse = "none" \/ strat_resp.raises))
            => error_messages # <<>>)
    /\ [][LogExtended]_vars

\* C28: whenever a round's decision is iterate, non-empty feedback text is
\* stored, whatever the proposal and the feedback call return; and every
\* strategist invocation after the first one of the query uses the
\* refinement chain.
C28_IterateHasFeedback ==
    /\ []((pc = "strategist" /\ moderator_decision = "iterate")
            => moderator_feedback \notin {NoFeedback, ""})
    /\ [][(pc = "strategist" /\ pc' = "critic" /\ calls["strategist"] >= 1)
            => ChainChosen(moderator_feedback, draft) = "refinement"]_vars

\* C29: when attempts of a streamed completion fail with a transient error
\* and a later attempt succeeds, the items delivered to the consumer are, in
\* order, exactly the fragments of the successful attempt: no fragment of a
\* failed attempt and no retry notice among them (checked under SpecStream,
\* for a stream the consumer read to its end).
C29_StreamExactlyOnce ==
    (pc = "streamed" /\ llm_call.kind = "stream" /\ llm_call.state = "done"
       /\ llm_call.attempts >= 2
       /\ stream_in[llm_call.attempts].outcome = "ok")
      => stream_out = Fragments(llm_call.attempts, stream_in[llm_call.attempts].frags)

\* the text a consumer holds after the chunks delivered
RECURSIVE Delivered(_)
Delivered(chunks) ==
    IF chunks = <<>> THEN "" ELSE Head(chunks) \o Delivered(Tail(chunks))
Contains(text, part) ==
    \E i \in 0..(Len(text) - Len(part)) : SubSeq(text, i + 1, i + Len(part)) = part

\* C30: for a debate status other than approved, the text process_streaming
\* delivers to a consumer that reads it to its end contains the text of
\* every non-empty section of the answer process produced; so for a
\* deadlock answer, whose partial_solution section is not empty, the stream
\* is not empty (checked under SpecStream).
C30_StreamDeliversAnswer ==
    (pc = "streamed" /\ llm_call.kind = "process" /\ llm_call.state = "done")
      => /\ \A k \in DOMAIN report_out.text :
              report_out.text[k] # ""
                => Contains(Delivered(stream_out), report_out.text[k])
         /\ (report_in.status = "deadlock" /\ report_out.text["partial_solution"] # "")
              => stream_out # <<>>

==============================================================================
